---- MODULE Spec2Model ----
(***************************************************************************)
(* Ownership and callback-marshalling layer of notmuch-rs:                 *)
(*   src/src/database.rs   Database, DatabasePtr, compact/upgrade wrappers *)
(*   src/src/directory.rs  Directory, DirectoryPtr                         *)
(*   src/tests/main.rs     the Arc<Database> (shared owner) usage          *)
(* The native library (libnotmuch) is the environment: every ffi call is   *)
(* answered nondeterministically within the library's documented contract. *)
(***************************************************************************)
EXTENDS Integers, Sequences, FiniteSets, TLC

\* ------------------------------------------------------------------ bounds
MaxRes == 3          \* resources (Database + derived) ever constructed
MaxDb == 1           \* distinct storage locations a run has a Database for
MaxReopen == 1       \* times a run opens storage it already has a Database for
MaxItems == 2        \* elements in the index behind a lazy sequence
MaxExhaust == 2      \* advances of one sequence that signal exhaustion
MaxPathLen == 1      \* bytes in a path argument
MaxCallbacks == 2    \* trampoline invocations per native compact/upgrade
MaxClose == 2        \* close() calls per Database

\* --------------------------------------------------------------- constants
NULL == 0            \* ptr::null_mut()
NUL == 0             \* the byte CString::new rejects
ASCII == 97          \* a byte that is valid UTF-8 and not NUL
BADUTF8 == 255       \* a byte that never occurs in valid UTF-8

PathBytes == {NUL, ASCII, BADUTF8}
Paths == UNION {[1..n -> PathBytes] : n \in 1..MaxPathLen}
NativeStatus == {"SUCCESS", "ERROR"}
DatabaseMode == {"ReadOnly", "ReadWrite"}
Handles == 1..MaxRes

VARIABLES
  objs,        \* every Database / derived resource constructed so far
  nextHandle,  \* next fresh handle the native library hands out
  destroyed,   \* native side: number of *_destroy calls per handle (NULL too)
  closed,      \* native side: number of notmuch_database_close calls per handle
  last,        \* outcome of the most recent operation of the layer
  cb           \* the compact/upgrade call in progress (or just returned, until
               \* the next operation starts) and its closure

vars == <<objs, nextHandle, destroyed, closed, last, cb>>

\* ------------------------------------------------------------ conversions
\* Path::to_str: Some(str) iff the bytes are valid UTF-8
to_str(path) ==
  IF \A i \in 1..Len(path) : path[i] < 128
  THEN [some |-> TRUE, val |-> path]
  ELSE [some |-> FALSE, val |-> <<>>]

\* CString::new: Err iff the bytes contain an interior NUL, else bytes + NUL
CString_new(s) ==
  IF \E i \in 1..Len(s) : s[i] = NUL
  THEN [ok |-> FALSE, val |-> <<>>]
  ELSE [ok |-> TRUE, val |-> Append(s, NUL)]

\* CString::new(path.as_ref().to_str().unwrap()).unwrap(): panics on either
\* unwrap, otherwise yields the C string
path_str(path) ==
  LET s == to_str(path) IN
  IF ~s.some THEN [panic |-> TRUE, val |-> <<>>]
  ELSE LET c == CString_new(s.val) IN
       IF ~c.ok THEN [panic |-> TRUE, val |-> <<>>]
       ELSE [panic |-> FALSE, val |-> c.val]

\* Status::as_result: Ok(()) for the success status, Err(status) otherwise
as_result(st) == IF st = "SUCCESS" THEN "Ok" ELSE "Err"

\* -------------------------------------------------- native storage model
DBVERSION == 3       \* the schema version the library writes on create
OLDVERSION == 2      \* a schema version of storage written by an older library
MODE_READ_ONLY == 0  \* NOTMUCH_DATABASE_MODE_READ_ONLY
MODE_READ_WRITE == 1 \* NOTMUCH_DATABASE_MODE_READ_WRITE

\* mode.into(): DatabaseMode as the C enum
mode_into(mode) == IF mode = "ReadOnly" THEN MODE_READ_ONLY ELSE MODE_READ_WRITE

\* Databases (alive or not) this run has had at the C path cpath: storage is
\* known to exist there
Storage(o, cpath) ==
  {d \in 1..Len(o) : o[d].kind = "Database" /\ o[d].path = cpath}

\* the schema version of the storage at cpath
StoredVersion(o, cpath) == o[CHOOSE d \in Storage(o, cpath) : TRUE].ver

\* a Database at cpath that holds the write lock: opened read-write, alive
\* and not closed
Writers(o, c, cpath) ==
  {d \in Storage(o, cpath) : /\ o[d].state = "live"
                             /\ o[d].mode = "ReadWrite"
                             /\ c[o[d].ptr] = 0}

\* notmuch_database_create: fails where storage exists; on a fresh path it
\* writes storage of the current version (or fails for reasons of the
\* file system)
native_create(o, cpath) ==
  IF Storage(o, cpath) # {}
  THEN {[st |-> "ERROR", ver |-> 0]}
  ELSE {[st |-> "SUCCESS", ver |-> DBVERSION], [st |-> "ERROR", ver |-> 0]}

\* notmuch_database_open: storage this run knows opens, unless the write
\* lock is asked for and taken; a path this run has not seen may hold older
\* storage, current storage, or none
native_open(o, c, cpath, cmode) ==
  IF Storage(o, cpath) # {}
  THEN IF cmode = MODE_READ_WRITE /\ Writers(o, c, cpath) # {}
       THEN {[st |-> "ERROR", ver |-> 0]}
       ELSE {[st |-> "SUCCESS", ver |-> StoredVersion(o, cpath)]}
  ELSE {[st |-> "SUCCESS", ver |-> OLDVERSION],
        [st |-> "SUCCESS", ver |-> DBVERSION],
        [st |-> "ERROR", ver |-> 0]}

\* ---------------------------------------------------------------- records
NoMarker == [form |-> "None", owner |-> 0]

\* struct DatabasePtr { ptr } inside struct Database { handle }
DatabaseObj(ptr) ==
  [kind |-> "Database", ptr |-> ptr, state |-> "live", marker |-> NoMarker,
   parent |-> 0, binding |-> TRUE, shared |-> FALSE, strong |-> 0,
   safe |-> TRUE, path |-> <<>>, mode |-> "none", origin |-> "none",
   ver |-> 0, len |-> 0, pos |-> 0, out |-> <<>>, nend |-> 0, late |-> FALSE]

NoLast ==
  [op |-> "none", db |-> 0, pathOk |-> TRUE, nativeCalled |-> FALSE,
   status |-> "none", handle |-> NULL, result |-> "none", res |-> 0,
   ncalls |-> 0, path |-> <<>>, mode |-> "none", value |-> 0]

IdleCb ==
  [phase |-> "idle", op |-> "none", db |-> 0, supplied |-> FALSE,
   fnptr |-> FALSE, ctx |-> 0, slots |-> <<"none", "none">>,
   backupPtr |-> "null", ntramp |-> 0, nclosure |-> 0, ngarbage |-> 0,
   arg |-> <<>>, seen |-> <<>>, prev |-> <<>>]

Idle == cb.phase \in {"idle", "returned"}

\* room left for another Database / another resource
Reopens ==
  {d \in 1..Len(objs) : /\ objs[d].kind = "Database"
                        /\ \E c \in 1..(d - 1) : /\ objs[c].kind = "Database"
                                                 /\ objs[c].path = objs[d].path}

RoomForDb ==
  /\ Len(objs) < MaxRes
  /\ Cardinality({r \in 1..Len(objs) : objs[r].kind = "Database"} \ Reopens)
       < MaxDb

\* room left to open the storage at the converted path p
RoomToOpen(p) ==
  IF ~p.panic /\ Storage(objs, p.val) # {}
  THEN Len(objs) < MaxRes /\ Cardinality(Reopens) < MaxReopen
  ELSE RoomForDb

Init ==
  /\ objs = <<>>
  /\ nextHandle = 1
  /\ destroyed = [h \in {NULL} \cup Handles |-> 0]
  /\ closed = [h \in Handles |-> 0]
  /\ last = NoLast
  /\ cb = IdleCb

\* ------------------------------------------------------- Database::create
create(path) ==
  /\ Idle
  /\ RoomForDb
  /\ LET p == path_str(path) IN
     IF p.panic
     THEN /\ last' = [NoLast EXCEPT !.op = "create", !.pathOk = FALSE,
                                    !.result = "Panic"]
          /\ UNCHANGED <<objs, nextHandle>>
     ELSE \E n \in native_create(objs, p.val) :
          \* the native call sets db on success and leaves it null otherwise
          LET st == n.st
              db == IF st = "SUCCESS" THEN nextHandle ELSE NULL IN
          IF as_result(st) = "Ok"
          THEN /\ objs' = Append(objs,
                        [DatabaseObj(db) EXCEPT !.path = p.val,
                            !.mode = "ReadWrite", !.origin = "create",
                            !.ver = n.ver])
               /\ nextHandle' = nextHandle + 1
               /\ last' = [NoLast EXCEPT !.op = "create", !.nativeCalled = TRUE,
                                         !.ncalls = 1, !.path = p.val,
                                         !.status = st, !.handle = db,
                                         !.result = "Ok", !.res = Len(objs) + 1]
          ELSE /\ last' = [NoLast EXCEPT !.op = "create", !.nativeCalled = TRUE,
                                         !.ncalls = 1, !.path = p.val,
                                         !.status = st, !.result = "Err"]
               /\ UNCHANGED <<objs, nextHandle>>
  /\ cb' = IdleCb
  /\ UNCHANGED <<destroyed, closed>>

\* --------------------------------------------------------- Database::open
\* mutant of open: the status is not checked (no try!), the Database is
\* built around whatever the native call left in db
open_unchecked(path, mode) ==
  /\ Idle
  /\ RoomToOpen(path_str(path))
  /\ mode \in DatabaseMode
  /\ LET p == path_str(path) IN
     IF p.panic
     THEN /\ last' = [NoLast EXCEPT !.op = "open", !.pathOk = FALSE,
                                    !.result = "Panic"]
          /\ UNCHANGED <<objs, nextHandle>>
     ELSE \E n \in native_open(objs, closed, p.val, mode_into(mode)) :
          LET db == IF n.st = "SUCCESS" THEN nextHandle ELSE NULL IN
          /\ objs' = Append(objs,
                   [DatabaseObj(db) EXCEPT !.path = p.val,
                       !.mode = mode, !.origin = "open", !.ver = n.ver])
          /\ nextHandle' = IF db = NULL THEN nextHandle ELSE nextHandle + 1
          /\ last' = [NoLast EXCEPT !.op = "open", !.nativeCalled = TRUE,
                                    !.ncalls = 1, !.path = p.val,
                                    !.mode = mode,
                                    !.status = n.st, !.handle = db,
                                    !.result = "Ok", !.res = Len(objs) + 1]
  /\ cb' = IdleCb
  /\ UNCHANGED <<destroyed, closed>>

open(path, mode) ==
  /\ Idle
  /\ RoomToOpen(path_str(path))
  /\ mode \in DatabaseMode
  /\ LET p == path_str(path) IN
     IF p.panic
     THEN /\ last' = [NoLast EXCEPT !.op = "open", !.pathOk = FALSE,
                                    !.result = "Panic"]
          /\ UNCHANGED <<objs, nextHandle>>
     ELSE \E n \in native_open(objs, closed, p.val, mode_into(mode)) :
          \* the native call sets db on success and leaves it null otherwise
          LET st == n.st
              db == IF st = "SUCCESS" THEN nextHandle ELSE NULL IN
          IF as_result(st) = "Ok"
          THEN /\ objs' = Append(objs,
                        [DatabaseObj(db) EXCEPT !.path = p.val,
                            !.mode = mode, !.origin = "open", !.ver = n.ver])
               /\ nextHandle' = nextHandle + 1
               /\ last' = [NoLast EXCEPT !.op = "open", !.nativeCalled = TRUE,
                                         !.ncalls = 1, !.path = p.val,
                                         !.mode = mode,
                                         !.status = st, !.handle = db,
                                         !.result = "Ok", !.res = Len(objs) + 1]
          ELSE /\ last' = [NoLast EXCEPT !.op = "open", !.nativeCalled = TRUE,
                                         !.ncalls = 1, !.path = p.val,
                                         !.mode = mode,
                                         !.status = st, !.result = "Err"]
               /\ UNCHANGED <<objs, nextHandle>>
  /\ cb' = IdleCb
  /\ UNCHANGED <<destroyed, closed>>

\* ------------------------------------------------- ownership bookkeeping
IsDb(d) == d \in 1..Len(objs) /\ objs[d].kind = "Database"
IsDerived(r) == r \in 1..Len(objs) /\ objs[r].kind # "Database"

\* live derived resources whose marker is a scoped borrow of d
Borrowers(o, d) ==
  {r \in 1..Len(o) : /\ o[r].state = "live"
                     /\ o[r].marker = [form |-> "Borrowed", owner |-> d]}

\* live derived resources whose marker references d, in either form
Dependents(o, d) ==
  {r \in 1..Len(o) : /\ o[r].state = "live"
                     /\ o[r].marker.form # "None"
                     /\ o[r].marker.owner = d}

\* &self is obtainable: the Database value (or an Arc to it) is in scope
CanBorrow(d) == IsDb(d) /\ objs[d].state = "live" /\ objs[d].binding

\* mutant of CanBorrowMut: the receiver is &self
CanBorrowMut_shared(d) == CanBorrow(d)

\* &mut self is obtainable: no outstanding borrow, and if the Database lives
\* in an Arc, Arc::get_mut succeeds only for the sole strong reference
CanBorrowMut(d) ==
  /\ CanBorrow(d)
  /\ Borrowers(objs, d) = {}
  /\ objs[d].shared => objs[d].strong = 1

\* mutant of DatabasePtr_drop: the guard forgets to release its handle
DatabasePtr_drop_leak(dest, ptr) == dest

\* impl Drop for DatabasePtr: ffi::notmuch_database_destroy(self.ptr)
DatabasePtr_drop(dest, ptr) == [dest EXCEPT ![ptr] = @ + 1]

\* impl Drop for DirectoryPtr: ffi::notmuch_directory_destroy(self.ptr)
DirectoryPtr_drop(dest, ptr) == [dest EXCEPT ![ptr] = @ + 1]

\* the Database value itself goes away: its only field, the guard, drops
Database_drop(w, d) ==
  [objs |-> [w.objs EXCEPT ![d].state = "dropped"],
   destroyed |-> DatabasePtr_drop(w.destroyed, w.objs[d].ptr)]

\* mutant of Arc_drop: the Database is dropped with the first reference
\* released instead of the last
Arc_drop_eager(w, d) ==
  LET o1 == [w.objs EXCEPT ![d].strong = @ - 1] IN
  IF o1[d].state = "live"
  THEN Database_drop([objs |-> o1, destroyed |-> w.destroyed], d)
  ELSE [objs |-> o1, destroyed |-> w.destroyed]

\* one Arc<Database> strong reference is released; the last one drops the
\* Database
Arc_drop(w, d) ==
  LET o1 == [w.objs EXCEPT ![d].strong = @ - 1] IN
  IF o1[d].strong = 0
  THEN Database_drop([objs |-> o1, destroyed |-> w.destroyed], d)
  ELSE [objs |-> o1, destroyed |-> w.destroyed]

\* the marker field (Phantomcow<'d, Database>) is dropped: a borrow simply
\* ends, a shared marker releases its strong reference
Marker_drop(w, m) ==
  IF m.form = "Shared" THEN Arc_drop(w, m.owner) ELSE w

\* Into<Phantomcow<'d, Database>>: from &'d Database or from Arc<Database>
Phantomcow(form, d) == [form |-> form, owner |-> d]

\* mutant of Directory_from_ptr: the owner is not kept in the Directory
Directory_from_ptr_nomarker(ptr, owner) ==
  [kind |-> "Directory", ptr |-> ptr, state |-> "live", marker |-> NoMarker,
   parent |-> owner.owner, binding |-> TRUE, shared |-> FALSE, strong |-> 0,
   safe |-> TRUE, path |-> <<>>, mode |-> "none", origin |-> "none",
   ver |-> 0, len |-> 0, pos |-> 0, out |-> <<>>, nend |-> 0, late |-> FALSE]

\* Directory::from_ptr: wraps ptr in a guard and keeps the owner marker.
\* parent is the Database whose native handle the directory handle hangs on
\* (the owner passed in), whatever becomes of the marker.
Directory_from_ptr(ptr, owner) ==
  [kind |-> "Directory", ptr |-> ptr, state |-> "live", marker |-> owner,
   parent |-> owner.owner, binding |-> TRUE, shared |-> FALSE, strong |-> 0,
   safe |-> TRUE, path |-> <<>>, mode |-> "none", origin |-> "none",
   ver |-> 0, len |-> 0, pos |-> 0, out |-> <<>>, nend |-> 0, late |-> FALSE]

\* Query::from_ptr / Tags::from_ptr: (guard, marker) pair of the same shape
Derived_from_ptr(kind, ptr, owner) ==
  [kind |-> kind, ptr |-> ptr, state |-> "live", marker |-> owner,
   parent |-> owner.owner, binding |-> TRUE, shared |-> FALSE, strong |-> 0,
   safe |-> TRUE, path |-> <<>>, mode |-> "none", origin |-> "none",
   ver |-> 0, len |-> 0, pos |-> 0, out |-> <<>>, nend |-> 0, late |-> FALSE]

\* Arc::new(db): the Database value is moved into a reference-counted box
ArcNew(d) ==
  /\ Idle
  /\ CanBorrow(d)
  /\ ~objs[d].shared
  /\ Borrowers(objs, d) = {}
  /\ objs' = [objs EXCEPT ![d].shared = TRUE, ![d].strong = 1]
  /\ last' = [NoLast EXCEPT !.op = "arc_new"]
  /\ cb' = IdleCb
  /\ UNCHANGED <<nextHandle, destroyed, closed>>

\* the original binding (Database value, or the Arc that replaced it) goes
\* out of scope; the borrow checker forbids this while a borrow is alive
DropBinding(d) ==
  /\ Idle
  /\ CanBorrow(d)
  /\ Borrowers(objs, d) = {}
  /\ LET w0 == [objs |-> [objs EXCEPT ![d].binding = FALSE],
                destroyed |-> destroyed]
         w1 == IF objs[d].shared THEN Arc_drop(w0, d) ELSE Database_drop(w0, d)
     IN /\ objs' = w1.objs
        /\ destroyed' = w1.destroyed
  /\ last' = [NoLast EXCEPT !.op = "drop_database"]
  /\ cb' = IdleCb
  /\ UNCHANGED <<nextHandle, closed>>

\* the handle field of a Directory is dropped: DirectoryPtr::drop runs.
\* safe notes whether the resource this handle hangs on (parent) still
\* existed at that moment.
Directory_handle_drop(w, r) ==
  [objs |-> [w.objs EXCEPT ![r].state = "dropped",
                           ![r].safe = (w.objs[w.objs[r].parent].state = "live")],
   destroyed |-> DirectoryPtr_drop(w.destroyed, w.objs[r].ptr)]

\* mutant of Directory_drop: the fields are dropped marker first, handle
\* second (as if declared in the other order)
Directory_drop_marker_first(w, r) ==
  Directory_handle_drop(Marker_drop(w, w.objs[r].marker), r)

\* struct Directory { handle, marker } is dropped: fields go in declaration
\* order, the guard (handle) first, the marker second
Directory_drop(w, r) ==
  Marker_drop(Directory_handle_drop(w, r), w.objs[r].marker)

\* a Directory goes out of scope; the borrow checker forbids this while a
\* Filenames borrowed from it is alive
DropDirectory(r) ==
  /\ Idle
  /\ IsDerived(r) /\ objs[r].kind = "Directory" /\ objs[r].state = "live"
  /\ Borrowers(objs, r) = {}
  /\ LET w1 == Directory_drop([objs |-> objs, destroyed |-> destroyed], r)
     IN /\ objs' = w1.objs
        /\ destroyed' = w1.destroyed
  /\ last' = [NoLast EXCEPT !.op = "drop_directory"]
  /\ cb' = IdleCb
  /\ UNCHANGED <<nextHandle, closed>>

\* a Query or Tags goes out of scope: guard first, marker second
DropQueryTags(r) ==
  /\ Idle
  /\ IsDerived(r) /\ objs[r].kind \in {"Query", "Tags"}
  /\ objs[r].state = "live"
  /\ LET w0 == [objs |-> [objs EXCEPT ![r].state = "dropped"],
                destroyed |-> [destroyed EXCEPT ![objs[r].ptr] = @ + 1]]
         w1 == Marker_drop(w0, objs[r].marker)
     IN /\ objs' = w1.objs
        /\ destroyed' = w1.destroyed
  /\ last' = [NoLast EXCEPT !.op = "drop_derived"]
  /\ cb' = IdleCb
  /\ UNCHANGED <<nextHandle, closed>>

\* ------------------------------------------- Directory::child_directories
\* Filenames::from_ptr: (guard, marker) pair; the owner is a Directory
Filenames_from_ptr(ptr, owner) ==
  [kind |-> "Filenames", ptr |-> ptr, state |-> "live", marker |-> owner,
   parent |-> owner.owner, binding |-> TRUE, shared |-> FALSE, strong |-> 0,
   safe |-> TRUE, path |-> <<>>, mode |-> "none", origin |-> "none",
   ver |-> 0, len |-> 0, pos |-> 0, out |-> <<>>, nend |-> 0, late |-> FALSE]

\* child_directories(&self) -> Filenames<Self>: the native call yields a
\* filenames handle (null stands for the empty list); self is the owner
child_directories(r) ==
  /\ Idle
  /\ IsDerived(r) /\ objs[r].kind = "Directory" /\ objs[r].state = "live"
  /\ Len(objs) < MaxRes
  /\ \E fns \in {NULL, nextHandle} :
     \E n \in IF fns = NULL THEN {0} ELSE 0..MaxItems :
       /\ objs' = Append(objs,
             [Filenames_from_ptr(fns, Phantomcow("Borrowed", r))
                EXCEPT !.len = n])
       /\ nextHandle' = IF fns = NULL THEN nextHandle ELSE nextHandle + 1
       /\ last' = [NoLast EXCEPT !.op = "child_directories",
                                 !.nativeCalled = TRUE, !.handle = fns,
                                 !.result = "Value", !.res = Len(objs) + 1]
  /\ cb' = IdleCb
  /\ UNCHANGED <<destroyed, closed>>

\* a Filenames goes out of scope: its guard destroys the handle, then the
\* borrow of the Directory ends
DropFilenames(f) ==
  /\ Idle
  /\ IsDerived(f) /\ objs[f].kind = "Filenames" /\ objs[f].state = "live"
  /\ objs' = [objs EXCEPT ![f].state = "dropped",
                          ![f].safe = (objs[objs[f].parent].state = "live")]
  /\ destroyed' = [destroyed EXCEPT ![objs[f].ptr] = @ + 1]
  /\ last' = [NoLast EXCEPT !.op = "drop_filenames"]
  /\ cb' = IdleCb
  /\ UNCHANGED <<nextHandle, closed>>

\* -------------------------------------------------------- Database::close
\* mutant of close: the early release also destroys the handle
close_destroys(d) ==
  /\ Idle
  /\ CanBorrowMut(d)
  /\ closed[objs[d].ptr] < MaxClose
  /\ \E st \in NativeStatus :
       last' = [NoLast EXCEPT !.op = "close", !.db = d, !.nativeCalled = TRUE,
                              !.status = st, !.handle = objs[d].ptr,
                              !.result = as_result(st)]
  /\ closed' = [closed EXCEPT ![objs[d].ptr] = @ + 1]
  /\ destroyed' = DatabasePtr_drop(destroyed, objs[d].ptr)
  /\ cb' = IdleCb
  /\ UNCHANGED <<objs, nextHandle>>

close(d) ==
  /\ Idle
  /\ CanBorrowMut(d)
  /\ closed[objs[d].ptr] < MaxClose
  /\ \E st \in NativeStatus :
       last' = [NoLast EXCEPT !.op = "close", !.db = d, !.nativeCalled = TRUE,
                              !.status = st, !.handle = objs[d].ptr,
                              !.result = as_result(st)]
  /\ closed' = [closed EXCEPT ![objs[d].ptr] = @ + 1]
  /\ cb' = IdleCb
  /\ UNCHANGED <<objs, nextHandle, destroyed>>

\* ------------------------------------------------------ Database::version
\* notmuch_database_get_version: the schema version of the handle's storage
native_get_version(o, d) == o[d].ver

\* mutant of version: the version is reported as a flag (is it 1?) the way
\* needs_upgrade reports its answer
version_as_flag(d) ==
  /\ Idle
  /\ CanBorrow(d)
  /\ last' = [NoLast EXCEPT !.op = "version", !.db = d, !.nativeCalled = TRUE,
                            !.handle = objs[d].ptr, !.result = "Value",
                            !.value = IF native_get_version(objs, d) = 1
                                      THEN 1 ELSE 0]
  /\ cb' = IdleCb
  /\ UNCHANGED <<objs, nextHandle, destroyed, closed>>

\* Version(ffi::notmuch_database_get_version(self.handle.ptr))
version(d) ==
  /\ Idle
  /\ CanBorrow(d)
  /\ last' = [NoLast EXCEPT !.op = "version", !.db = d, !.nativeCalled = TRUE,
                            !.handle = objs[d].ptr, !.result = "Value",
                            !.value = native_get_version(objs, d)]
  /\ cb' = IdleCb
  /\ UNCHANGED <<objs, nextHandle, destroyed, closed>>

\* ---------------------------------------------------- Database::directory
\* mutant of directory_result: a lookup that yields no handle is reported as
\* an error
directory_result_null_is_error(st, dir) ==
  IF as_result(st) # "Ok" THEN "Err"
  ELSE IF dir = NULL THEN "Err"
  ELSE "OkSome"

\* try!(status.as_result()); if dir.is_null() { Ok(None) } else { Ok(Some(..)) }
directory_result(st, dir) ==
  IF as_result(st) # "Ok" THEN "Err"
  ELSE IF dir = NULL THEN "OkNone"
  ELSE "OkSome"

directory(d, path) ==
  /\ Idle
  /\ CanBorrow(d)
  /\ Len(objs) < MaxRes
  /\ LET p == path_str(path) IN
     IF p.panic
     THEN /\ last' = [NoLast EXCEPT !.op = "directory", !.db = d,
                                    !.pathOk = FALSE, !.result = "Panic"]
          /\ UNCHANGED <<objs, nextHandle>>
     ELSE \E st \in NativeStatus :
          \* the native lookup: on success a directory handle or, for a path
          \* the index does not know, null; on failure dir stays null
          \E dir \in (IF st = "SUCCESS" THEN {NULL, nextHandle} ELSE {NULL}) :
          LET res == directory_result(st, dir) IN
          /\ last' = [NoLast EXCEPT !.op = "directory", !.db = d,
                         !.nativeCalled = TRUE, !.status = st, !.handle = dir,
                         !.result = res,
                         !.res = IF res = "OkSome" THEN Len(objs) + 1 ELSE 0]
          /\ IF res = "OkSome"
             THEN /\ objs' = Append(objs,
                        Directory_from_ptr(dir, Phantomcow("Borrowed", d)))
                  /\ nextHandle' = IF dir = NULL THEN nextHandle
                                   ELSE nextHandle + 1
             ELSE UNCHANGED <<objs, nextHandle>>
  /\ cb' = IdleCb
  /\ UNCHANGED <<destroyed, closed>>

\* ------------------------------------- Directory::from_ptr (public entry)
\* called with a raw pointer and an owner in either form; ptr is whatever the
\* caller holds: a handle the native library just produced, or null
from_ptr(ptr, d, form) ==
  /\ Idle
  /\ CanBorrow(d)
  /\ Len(objs) < MaxRes
  /\ ptr \in {NULL, nextHandle}
  /\ form \in {"Borrowed", "Shared"}
  /\ form = "Shared" => objs[d].shared
  /\ LET o1 == IF form = "Shared"
               THEN [objs EXCEPT ![d].strong = @ + 1]   \* Arc::clone
               ELSE objs
     IN objs' = Append(o1, Directory_from_ptr(ptr, Phantomcow(form, d)))
  /\ nextHandle' = IF ptr = NULL THEN nextHandle ELSE nextHandle + 1
  /\ last' = [NoLast EXCEPT !.op = "from_ptr", !.db = d, !.handle = ptr,
                            !.result = "Value", !.res = Len(objs) + 1]
  /\ cb' = IdleCb
  /\ UNCHANGED <<destroyed, closed>>

\* ------------------------------------------------- Database::create_query
QueryStrings == UNION {[1..n -> {NUL, ASCII}] : n \in 1..MaxPathLen}

create_query(d, query_string) ==
  /\ Idle
  /\ CanBorrow(d)
  /\ Len(objs) < MaxRes
  /\ IF ~CString_new(query_string).ok
     THEN /\ last' = [NoLast EXCEPT !.op = "create_query", !.db = d,
                                    !.pathOk = FALSE, !.result = "Panic"]
          /\ UNCHANGED <<objs, nextHandle>>
     ELSE \E query \in {NULL, nextHandle} :
          /\ objs' = Append(objs,
                Derived_from_ptr("Query", query, Phantomcow("Borrowed", d)))
          /\ nextHandle' = IF query = NULL THEN nextHandle ELSE nextHandle + 1
          /\ last' = [NoLast EXCEPT !.op = "create_query", !.db = d,
                                    !.nativeCalled = TRUE, !.handle = query,
                                    !.result = "Ok", !.res = Len(objs) + 1]
  /\ cb' = IdleCb
  /\ UNCHANGED <<destroyed, closed>>

\* ----------------------------------------------------- Database::all_tags
all_tags(d) ==
  /\ Idle
  /\ CanBorrow(d)
  /\ Len(objs) < MaxRes
  /\ \E tags \in {NULL, nextHandle} :
       /\ objs' = Append(objs,
             [Derived_from_ptr("Tags", tags, Phantomcow("Borrowed", d))
                EXCEPT !.len = IF tags = NULL THEN 0 ELSE objs[d].len])
       /\ nextHandle' = IF tags = NULL THEN nextHandle ELSE nextHandle + 1
       /\ last' = [NoLast EXCEPT !.op = "all_tags", !.db = d,
                                 !.nativeCalled = TRUE, !.handle = tags,
                                 !.result = "Ok", !.res = Len(objs) + 1]
  /\ cb' = IdleCb
  /\ UNCHANGED <<destroyed, closed>>

\* ------------------------------------ Query::create(Arc<Database>, &str)
\* the shared-owner constructor used by tests/main.rs
Query_create(d, query_string) ==
  /\ Idle
  /\ CanBorrow(d) /\ objs[d].shared
  /\ Len(objs) < MaxRes
  /\ IF ~CString_new(query_string).ok
     THEN /\ last' = [NoLast EXCEPT !.op = "query_create", !.db = d,
                                    !.pathOk = FALSE, !.result = "Err"]
          /\ UNCHANGED <<objs, nextHandle>>
     ELSE \E query \in {NULL, nextHandle} :
          IF query = NULL
          THEN /\ last' = [NoLast EXCEPT !.op = "query_create", !.db = d,
                                         !.nativeCalled = TRUE,
                                         !.result = "Err"]
               /\ UNCHANGED <<objs, nextHandle>>
          ELSE /\ objs' = Append([objs EXCEPT ![d].strong = @ + 1],
                     Derived_from_ptr("Query", query, Phantomcow("Shared", d)))
               /\ nextHandle' = nextHandle + 1
               /\ last' = [NoLast EXCEPT !.op = "query_create", !.db = d,
                                         !.nativeCalled = TRUE,
                                         !.handle = query, !.result = "Ok",
                                         !.res = Len(objs) + 1]
  /\ cb' = IdleCb
  /\ UNCHANGED <<destroyed, closed>>

\* ------------------------------------------------- callback marshalling
\* Stack slots that hold the closure during _compact / _upgrade:
\*   slot 1  the parameter `status: Option<F>` of _compact / _upgrade
\*   slot 2  the parameter `f` of the lambda handed to Option::map_or
StatusSlot == 1
LambdaSlot == 2

Messages == {<<ASCII>>, <<ASCII, ASCII>>}    \* compaction status texts
UNIT == 100                                  \* the fraction 1.0, in hundredths
Progress == {0, 50, UNIT}                    \* upgrade progress, in hundredths

\* mutant of wrapper_ptr: the trampoline is registered whether or not a
\* closure was supplied
wrapper_ptr_always(supplied) == TRUE

\* if status.is_some() { Some(wrapper::<F>) } else { None }
wrapper_ptr(supplied) == supplied

\* status.map_or(ptr::null_mut(), |f| &f as *const _ as *mut c_void):
\* map_or takes the Option by value, so the closure is moved out of `status`
\* into the lambda's parameter f; the lambda returns the address of f, and f
\* is dropped when the lambda returns, before the native call is made
status_map_or(supplied) ==
  IF supplied
  THEN [ctx |-> LambdaSlot, slots |-> <<"moved", "dropped">>]
  ELSE [ctx |-> NULL, slots |-> <<"none", "none">>]

\* backup_path.map_or(ptr::null(), |p| p.as_ptr()): the CString is moved into
\* the lambda and dropped on its return, the pointer outlives it
backup_map_or(given) == IF given THEN "dangling" ELSE "null"

BackupPaths == {<<>>} \cup Paths      \* <<>> stands for None

\* Database::compact / compact_with_status -> _compact, up to the point the
\* native call is entered
compact_call(path, backup_path, supplied) ==
  /\ Idle
  /\ LET p == path_str(path)
         b == IF backup_path = <<>> THEN [panic |-> FALSE, val |-> <<>>]
              ELSE path_str(backup_path)
     IN
     IF p.panic \/ b.panic
     THEN /\ last' = [NoLast EXCEPT !.op = "compact", !.pathOk = FALSE,
                                    !.result = "Panic"]
          /\ cb' = IdleCb
     ELSE LET c == status_map_or(supplied) IN
          /\ cb' = [IdleCb EXCEPT !.phase = "native", !.op = "compact",
                                  !.supplied = supplied,
                                  !.fnptr = wrapper_ptr(supplied),
                                  !.ctx = c.ctx, !.slots = c.slots,
                                  !.backupPtr = backup_map_or(backup_path # <<>>)]
          /\ last' = [NoLast EXCEPT !.op = "compact", !.nativeCalled = TRUE]
  /\ UNCHANGED <<objs, nextHandle, destroyed, closed>>

\* Database::upgrade / upgrade_with_status -> _upgrade, up to the point the
\* native call is entered
upgrade_call(d, supplied) ==
  /\ Idle
  /\ CanBorrowMut(d)
  /\ LET c == status_map_or(supplied) IN
     cb' = [IdleCb EXCEPT !.phase = "native", !.op = "upgrade", !.db = d,
                          !.supplied = supplied,
                          !.fnptr = wrapper_ptr(supplied),
                          !.ctx = c.ctx, !.slots = c.slots]
  /\ last' = [NoLast EXCEPT !.op = "upgrade", !.db = d, !.nativeCalled = TRUE,
                            !.handle = objs[d].ptr]
  /\ UNCHANGED <<objs, nextHandle, destroyed, closed>>

\* message.to_str() in the compact wrapper: the C string as &str
CStr_to_str(m) ==
  IF \A i \in 1..Len(m) : m[i] < 128
  THEN [some |-> TRUE, val |-> m]
  ELSE [some |-> FALSE, val |-> <<>>]

\* mutant of as_f64: the fraction is handed on as a percentage
as_percent(x) == x * UNIT

\* progress as f64: c_double is f64, the value is unchanged
as_f64(x) == x

\* (*closure)(arg) inside either wrapper.  The call is dispatched to F's code
\* statically and arg is passed by value; what the code finds behind ctx
\* depends on the slot: a live slot is the closure; a dropped slot is dead
\* stack memory, and the read is undefined: the captures may still be
\* intact, may have been overwritten by the native frames, or the access
\* may fault.
call_closure(c, v) ==
  IF c.ctx # NULL /\ c.slots[c.ctx] = "live"
  THEN {[c EXCEPT !.nclosure = @ + 1, !.seen = v, !.prev = c.seen]}
  ELSE {[c EXCEPT !.nclosure = @ + 1, !.seen = v, !.prev = c.seen],
        [c EXCEPT !.ngarbage = @ + 1, !.seen = v, !.prev = c.seen],
        [c EXCEPT !.phase = "crashed", !.seen = <<>>]}

\* extern "C" fn wrapper in _compact: one trampoline invocation by the
\* native library; (*closure)(message.to_str().unwrap())
compact_wrapper(message) ==
  /\ cb.phase = "native" /\ cb.op = "compact"
  /\ cb.fnptr
  /\ cb.ntramp < MaxCallbacks
  /\ LET c1 == [cb EXCEPT !.ntramp = @ + 1, !.arg = message]
         s == CStr_to_str(message)
     IN IF s.some
        THEN cb' \in call_closure(c1, s.val)
        ELSE cb' = [c1 EXCEPT !.phase = "crashed", !.seen = <<>>]
  /\ UNCHANGED <<objs, nextHandle, destroyed, closed, last>>

\* extern "C" fn wrapper in _upgrade: (*closure)(progress as f64)
upgrade_wrapper(progress) ==
  /\ cb.phase = "native" /\ cb.op = "upgrade"
  /\ cb.fnptr
  /\ cb.ntramp < MaxCallbacks
  /\ LET c1 == [cb EXCEPT !.ntramp = @ + 1, !.arg = <<progress>>]
     IN cb' \in call_closure(c1, <<as_f64(progress)>>)
  /\ UNCHANGED <<objs, nextHandle, destroyed, closed, last>>

\* mutant of native_return: the closure is notified once more after the
\* native call has come back
native_return_notify ==
  /\ cb.phase = "native"
  /\ \E st \in NativeStatus :
       last' = [last EXCEPT !.status = st, !.result = as_result(st)]
  /\ cb' = [cb EXCEPT !.phase = "returned",
                      !.nclosure = @ + (IF cb.supplied THEN 1 ELSE 0)]
  /\ UNCHANGED <<objs, nextHandle, destroyed, closed>>

\* the native compact/upgrade call returns: try!(status.as_result()); Ok(())
native_return ==
  /\ cb.phase = "native"
  /\ \E st \in NativeStatus :
       last' = [last EXCEPT !.status = st,
                            !.result = as_result(st)]
  /\ cb' = [cb EXCEPT !.phase = "returned"]
  /\ UNCHANGED <<objs, nextHandle, destroyed, closed>>

\* operations on the ownership hierarchy
Next ==
  \/ \E path \in Paths : create(path)
  \/ \E d \in 1..MaxRes : ArcNew(d)
  \/ \E d \in 1..MaxRes : DropBinding(d)
  \/ \E r \in 1..MaxRes : DropDirectory(r)
  \/ \E r \in 1..MaxRes : DropQueryTags(r)
  \* here a Database is closed at most once; SpecExcl closes it repeatedly
  \/ \E d \in 1..MaxRes : close(d) /\ closed' \in [Handles -> 0..1]
  \/ \E d \in 1..MaxRes, path \in Paths : directory(d, path)
  \/ \E d \in 1..MaxRes, ptr \in {NULL} \cup Handles,
        form \in {"Borrowed", "Shared"} : from_ptr(ptr, d, form)
  \/ \E d \in 1..MaxRes, q \in QueryStrings : create_query(d, q)
  \/ \E d \in 1..MaxRes : all_tags(d)
  \/ \E d \in 1..MaxRes, q \in QueryStrings : Query_create(d, q)

Spec == Init /\ [][Next]_vars

\* the long-running calls (compact, upgrade) and their callbacks
NextCb ==
  \/ \E path \in Paths : create(path)
  \/ \E d \in 1..MaxRes : DropBinding(d)
  \/ \E path \in Paths, backup \in BackupPaths, supplied \in BOOLEAN :
        compact_call(path, backup, supplied)
  \/ \E d \in 1..MaxRes, supplied \in BOOLEAN : upgrade_call(d, supplied)
  \/ \E message \in Messages : compact_wrapper(message)
  \/ \E progress \in Progress : upgrade_wrapper(progress)
  \/ native_return

SpecCb == Init /\ [][NextCb]_vars

\* the chain Database -> Directory -> Filenames
NextTree ==
  \/ \E path \in Paths : create(path)
  \/ \E d \in 1..MaxRes : ArcNew(d)
  \/ \E d \in 1..MaxRes : DropBinding(d)
  \/ \E d \in 1..MaxRes, path \in Paths : directory(d, path)
  \/ \E d \in 1..MaxRes, ptr \in {NULL} \cup Handles,
        form \in {"Borrowed", "Shared"} : from_ptr(ptr, d, form)
  \/ \E r \in 1..MaxRes : child_directories(r)
  \/ \E f \in 1..MaxRes : DropFilenames(f)
  \/ \E r \in 1..MaxRes : DropDirectory(r)

SpecTree == Init /\ [][NextTree]_vars

\* ------------------------------------------------------- lazy sequences
SeqKinds == {"Tags", "Filenames"}

\* the index behind a Database gains or loses elements (this process or
\* another one writes to it); d.len is the number of elements now in it
IndexChange(d, n) ==
  /\ Idle
  /\ IsDb(d) /\ objs[d].state = "live"
  /\ n \in 0..MaxItems /\ n # objs[d].len
  /\ objs' = [objs EXCEPT ![d].len = n]
  /\ last' = [NoLast EXCEPT !.op = "index_change"]
  /\ cb' = IdleCb
  /\ UNCHANGED <<nextHandle, destroyed, closed>>

\* notmuch_<seq>_valid: the native iterator still has an element; the
\* iterator walks the elements that were there when it was made
seq_valid(s) == s.pos < s.len

\* notmuch_<seq>_get: the element under the iterator
seq_get(s) == s.pos + 1

\* mutant of seq_move_to_next: the iterator is left where it was
seq_move_to_next_stay(s) == s

\* notmuch_<seq>_move_to_next
seq_move_to_next(s) == [s EXCEPT !.pos = @ + 1]

\* Iterator::next(&mut self): None when the native iterator is not valid,
\* else the element under it, and the iterator moves on
advance(f) ==
  /\ Idle
  /\ IsDerived(f) /\ objs[f].kind \in SeqKinds /\ objs[f].state = "live"
  /\ objs[f].ptr # NULL
  /\ Borrowers(objs, f) = {}
  /\ Len(objs[f].out) <= MaxItems
  /\ IF seq_valid(objs[f])
     THEN /\ objs' = [objs EXCEPT
                        ![f] = [seq_move_to_next(objs[f]) EXCEPT
                                  !.out = Append(@, seq_get(objs[f])),
                                  !.late = (objs[f].nend > 0)]]
          /\ last' = [NoLast EXCEPT !.op = "next", !.db = f,
                                    !.nativeCalled = TRUE, !.result = "Some",
                                    !.value = seq_get(objs[f])]
     ELSE /\ objs[f].nend < MaxExhaust
          /\ objs' = [objs EXCEPT ![f].nend = @ + 1]
          /\ last' = [NoLast EXCEPT !.op = "next", !.db = f,
                                    !.nativeCalled = TRUE, !.result = "None"]
  /\ cb' = IdleCb
  /\ UNCHANGED <<nextHandle, destroyed, closed>>

\* the run under study makes one sequence and consumes it: advancing one
\* sequence reads and writes nothing of another
RoomForSeq == \A f \in 1..Len(objs) : objs[f].kind \notin SeqKinds

NextSeq ==
  \/ \E path \in Paths : create(path)
  \/ \E d \in 1..MaxRes, n \in 0..MaxItems : IndexChange(d, n)
  \/ \E d \in 1..MaxRes : RoomForSeq /\ all_tags(d)
  \/ \E ptr \in Handles, d \in 1..MaxRes : from_ptr(ptr, d, "Borrowed")
  \/ \E r \in 1..MaxRes : RoomForSeq /\ child_directories(r)
  \/ \E f \in 1..MaxRes : advance(f)
  \/ \E r \in 1..MaxRes : DropQueryTags(r)
  \/ \E f \in 1..MaxRes : DropFilenames(f)

\* a loop `while let Some(x) = seq.next()` keeps advancing its sequence
SpecSeq ==
  Init /\ [][NextSeq]_vars /\ \A f \in 1..MaxRes : WF_vars(advance(f))

\* exclusive access: close and upgrade next to derived resources
NextExcl ==
  \/ \E path \in Paths : create(path)
  \/ \E d \in 1..MaxRes : ArcNew(d)
  \/ \E d \in 1..MaxRes, ptr \in Handles,
        form \in {"Borrowed", "Shared"} : from_ptr(ptr, d, form)
  \/ \E r \in 1..MaxRes : DropDirectory(r)
  \/ \E d \in 1..MaxRes : DropBinding(d)
  \/ \E d \in 1..MaxRes : close(d)
  \/ \E d \in 1..MaxRes, supplied \in BOOLEAN : upgrade_call(d, supplied)
  \/ native_return

SpecExcl == Init /\ [][NextExcl]_vars

\* storage: create, open, version
NextStore ==
  \/ \E path \in Paths : create(path)
  \/ \E path \in Paths, mode \in DatabaseMode : open(path, mode)
  \/ \E d \in 1..MaxRes : version(d)
  \/ \E d \in 1..MaxRes : ArcNew(d)
  \/ \E d \in 1..MaxRes : DropBinding(d)

SpecStore == Init /\ [][NextStore]_vars

\* =================================================================== claims
Objs == 1..Len(objs)
Databases == {d \in Objs : objs[d].kind = "Database"}
Derived == {r \in Objs : objs[r].kind # "Database"}
LiveDerived == {r \in Derived : objs[r].state = "live"}

\* C1: the handle of every constructed Database or Directory is wrapped by
\* one guard only, has seen no native destroy while that guard exists, and
\* exactly one native destroy once the guard has been dropped, whatever
\* happened in between (Arc::new move, close, derived resources made and
\* dropped).
GuardReleasesExactlyOnce ==
  /\ \A r \in Objs :
       (objs[r].kind \in {"Database", "Directory"} /\ objs[r].ptr # NULL) =>
         destroyed[objs[r].ptr] = (IF objs[r].state = "dropped" THEN 1 ELSE 0)
  /\ \A r1, r2 \in Objs :
       (r1 # r2 /\ objs[r1].ptr = objs[r2].ptr) => objs[r1].ptr = NULL

\* C1 witness: a Database that was moved into an Arc, closed and then
\* dropped, and a Directory of it that was dropped, each destroyed once
GuardReleasedWitness ==
  \E d \in Databases : \E r \in Derived :
    /\ objs[d].state = "dropped" /\ objs[d].shared
    /\ closed[objs[d].ptr] > 0
    /\ destroyed[objs[d].ptr] = 1
    /\ objs[r].kind = "Directory" /\ objs[r].ptr # NULL
    /\ objs[r].state = "dropped" /\ destroyed[objs[r].ptr] = 1

\* C2: while a derived resource (Directory, Query, Tags) made from a Database
\* exists, that Database has not been dropped and its handle has not been
\* destroyed, for the Borrowed and for the Shared marker alike.
OwnerNotDestroyedWhileDerivedLives ==
  \A r \in LiveDerived :
    /\ objs[r].parent \in Databases
    /\ objs[objs[r].parent].state = "live"
    /\ destroyed[objs[objs[r].parent].ptr] = 0

\* C2 witness: a Borrowed and a Shared derived resource of the same Database
\* alive together
BothFormsAliveWitness ==
  \E r1, r2 \in LiveDerived :
    /\ objs[r1].marker.form = "Borrowed" /\ objs[r2].marker.form = "Shared"
    /\ objs[r1].parent = objs[r2].parent
    /\ objs[r1].marker.owner = objs[r1].parent
    /\ objs[r2].marker.owner = objs[r2].parent

\* the co-owners of a shared Database: the original Arc binding, and every
\* live derived resource holding a Shared marker on it
CoOwners(d) ==
  (IF objs[d].binding THEN 1 ELSE 0)
  + Cardinality({r \in LiveDerived :
                   objs[r].marker = [form |-> "Shared", owner |-> d]})

\* C3: a Database held through Arc is dropped, and its handle destroyed,
\* exactly when no co-owner is left: not when the original binding goes, and
\* in whatever order the co-owners go.
SharedOwnerDestroyedWithLastCoOwner ==
  \A d \in Databases :
    objs[d].shared =>
      /\ objs[d].state = (IF CoOwners(d) = 0 THEN "dropped" ELSE "live")
      /\ destroyed[objs[d].ptr] = (IF CoOwners(d) = 0 THEN 1 ELSE 0)

\* C3 witness: the original binding is gone, one shared derived resource
\* has already been dropped, another is alive and the handle is not
\* destroyed
SharedOutlivesBindingWitness ==
  \E d \in Databases : \E r1, r2 \in Derived :
    /\ objs[d].shared /\ ~objs[d].binding
    /\ objs[r1].marker = [form |-> "Shared", owner |-> d]
    /\ objs[r2].marker = [form |-> "Shared", owner |-> d]
    /\ objs[r1].state = "dropped" /\ objs[r2].state = "live"
    /\ destroyed[objs[d].ptr] = 0

\* C4: no resource's guard wraps a null handle, and the native destroy is
\* never invoked on null.
NeverWrapsNull ==
  /\ \A r \in Objs : objs[r].ptr # NULL
  /\ destroyed[NULL] = 0

\* C5: at every trampoline invocation of a compact_with_status or
\* upgrade_with_status call, the context pointer refers to a closure that is
\* still live (neither moved away nor dropped).
ClosureLiveAtEveryTrampolineCall ==
  cb.ntramp > 0 => (cb.ctx # NULL /\ cb.slots[cb.ctx] = "live")

\* C6: every trampoline invocation so far ran the closure behind the context
\* pointer exactly once and handed it the native argument unchanged.
TrampolineRunsClosureOncePerCall ==
  /\ cb.nclosure = cb.ntramp
  /\ cb.ngarbage = 0
  /\ cb.phase # "crashed"
  /\ cb.ntramp > 0 => cb.seen = cb.arg

\* every execution of the closure's code, whatever it found behind ctx
ClosureRuns == cb.nclosure + cb.ngarbage

\* C7: the closure supplied to compact or upgrade runs only inside the native
\* call: it has not run before the call is entered, and every run happens in
\* a step that starts and ends with the call still in progress, so none
\* follows the call's return, with Ok or with Err.
ClosureRunsOnlyDuringCall ==
  /\ [](cb.phase = "idle" => ClosureRuns = 0)
  /\ [][ClosureRuns' > ClosureRuns
          => (cb.phase = "native" /\ cb'.phase = "native")]_vars
  /\ [][cb.phase = "returned"
          => (cb'.phase = "returned" => ClosureRuns' = ClosureRuns)]_vars

\* C7 witness: a call with a closure has returned an error after the closure
\* ran
ReturnedAfterClosureRanWitness ==
  /\ cb.phase = "returned" /\ cb.supplied
  /\ cb.nclosure > 0
  /\ last.result = "Err"

\* the native call of the last operation failed: an error status, or no
\* handle from a call that reports failure that way
NativeFailed ==
  /\ last.nativeCalled
  /\ \/ last.status = "ERROR"
     \/ last.op \in {"create_query", "all_tags"} /\ last.handle = NULL

\* C8: whenever the native call behind create, open, close, compact,
\* upgrade, directory, create_query or all_tags fails, the operation returns
\* an error.
NoNativeErrorSwallowed ==
  (/\ last.op \in {"create", "open", "close", "compact", "upgrade",
                   "directory", "create_query", "all_tags"}
   /\ NativeFailed)
  => last.result = "Err"

\* C9: create, open, compact or directory given an unusable path returns an
\* error value, without panicking and without calling the native library.
UnusablePathIsAnError ==
  (last.op \in {"create", "open", "compact", "directory"} /\ ~last.pathOk)
  => (last.result = "Err" /\ ~last.nativeCalled)

\* C10: once directory(path) has made the native lookup, its result is one of
\* three: Ok(None) if the lookup succeeded without a handle, and then no
\* guard was created; Ok(Some(dir)) if it succeeded with a handle, dir being
\* one new Directory that wraps that handle and has this Database as owner;
\* Err exactly if the lookup reported a failure status.
DirectoryHasThreeOutcomes ==
  /\ []((last.op = "directory" /\ last.nativeCalled) =>
          /\ last.result \in {"OkNone", "OkSome", "Err"}
          /\ (last.result = "Err") = (last.status # "SUCCESS")
          /\ (last.status = "SUCCESS" /\ last.handle = NULL) =>
               (last.result = "OkNone" /\ last.res = 0)
          /\ (last.status = "SUCCESS" /\ last.handle # NULL) =>
               /\ last.result = "OkSome"
               /\ last.res = Len(objs)
               /\ objs[last.res].kind = "Directory"
               /\ objs[last.res].state = "live"
               /\ objs[last.res].ptr = last.handle
               /\ objs[last.res].marker.form \in {"Borrowed", "Shared"}
               /\ objs[last.res].marker.owner = last.db
               /\ objs[last.res].parent = last.db)
  /\ [][(last'.op = "directory" /\ last'.nativeCalled) =>
          IF last'.result = "OkSome"
          THEN Len(objs') = Len(objs) + 1 /\ SubSeq(objs', 1, Len(objs)) = objs
          ELSE objs' = objs]_vars

\* C10 witness: a lookup that found nothing returned Ok(None) while a
\* Directory from an earlier lookup on the same Database is alive
DirectoryNotFoundWitness ==
  /\ last.op = "directory" /\ last.status = "SUCCESS"
  /\ last.result = "OkNone"
  /\ \E r \in LiveDerived :
       objs[r].kind = "Directory" /\ objs[r].parent = last.db

\* C11: along Database -> Directory -> Filenames nothing is destroyed after
\* what it hangs on: while a Filenames or Directory exists its parent (and so
\* its parent's parent) exists, and every one already dropped had its handle
\* destroyed while its parent still existed.
ReleaseOrderFollowsChain ==
  \A r \in Objs :
    objs[r].kind \in {"Directory", "Filenames"} =>
      /\ objs[r].parent \in Objs
      /\ objs[objs[r].parent].kind =
           (IF objs[r].kind = "Filenames" THEN "Directory" ELSE "Database")
      /\ objs[r].state = "live" => objs[objs[r].parent].state = "live"
      /\ objs[r].state = "dropped" => objs[r].safe

\* C11 witness: the whole chain has been released; the Directory co-owned
\* the Database and was its last owner, so its drop destroyed both handles
ChainReleasedWitness ==
  \E d, r, f \in Objs :
    /\ objs[d].kind = "Database" /\ objs[d].shared
    /\ objs[r].kind = "Directory" /\ objs[r].marker = [form |-> "Shared", owner |-> d]
    /\ objs[f].kind = "Filenames" /\ objs[f].parent = r /\ objs[f].ptr # NULL
    /\ objs[d].state = "dropped" /\ objs[r].state = "dropped"
    /\ objs[f].state = "dropped"
    /\ destroyed[objs[d].ptr] = 1 /\ destroyed[objs[f].ptr] = 1
    /\ last.op = "drop_directory"

\* C12: once create has succeeded at a path, open(path, ReadOnly) succeeds,
\* and version() on a Database opened that way is the version create set.
CreateThenOpenKeepsVersion ==
  /\ (/\ last.op = "open" /\ last.mode = "ReadOnly" /\ last.pathOk
      /\ \E c \in Databases :
           objs[c].origin = "create" /\ objs[c].path = last.path)
     => last.result = "Ok"
  /\ last.op = "version" =>
       \A c \in Databases :
         (/\ objs[c].origin = "create"
          /\ objs[last.db].origin = "open"
          /\ objs[last.db].mode = "ReadOnly"
          /\ objs[c].path = objs[last.db].path)
         => (last.value = objs[c].ver /\ last.value = DBVERSION)

\* C12 witness: version() has just answered on a Database opened read-only
\* at a path where an earlier create succeeded
VersionAfterCreateOpenWitness ==
  /\ last.op = "version"
  /\ objs[last.db].origin = "open" /\ objs[last.db].mode = "ReadOnly"
  /\ \E c \in Databases :
       objs[c].origin = "create" /\ objs[c].path = objs[last.db].path

Sequences ==
  {f \in Objs : objs[f].kind \in SeqKinds /\ objs[f].ptr # NULL}

NoRepeat(out) ==
  \A i, j \in 1..Len(out) : i # j => out[i] # out[j]

\* every element a sequence has yielded was yielded once, was one of the
\* elements there when the sequence was made, and none came after exhaustion
SinglePass ==
  \A f \in Sequences :
    /\ NoRepeat(objs[f].out)
    /\ \A i \in 1..Len(objs[f].out) : objs[f].out[i] \in 1..objs[f].len
    /\ ~objs[f].late
    /\ objs[f].nend > 0 => Len(objs[f].out) = objs[f].len

\* C13: a lazy sequence is single-pass and finite: advancing yields each
\* element at most once, exhaustion once signalled is signalled by every
\* later advance whatever happens to the index, and a loop that advances
\* until exhaustion reaches it (unless the sequence is dropped first).
SinglePassAndFinite ==
  /\ []SinglePass
  /\ \A f \in 1..MaxRes :
       (f \in Sequences /\ objs[f].state = "live")
         ~> (f \in Objs /\ (objs[f].nend > 0 \/ objs[f].state = "dropped"))

\* C13 witness: a sequence made of a two-element index yielded both, then
\* signalled exhaustion twice while the index had changed under it
ExhaustedTwiceWitness ==
  \E f \in Sequences :
    /\ objs[f].kind = "Tags"
    /\ Len(objs[f].out) >= 2
    /\ objs[f].nend >= 2
    /\ objs[objs[f].parent].len # objs[f].len
    /\ last.op = "next" /\ last.result = "None"

\* C14: during upgrade with a supplied progress closure, every value the
\* closure receives lies within [0.0, 1.0]; the values need not increase.
ProgressWithinUnit ==
  (cb.op = "upgrade" /\ cb.supplied) =>
    /\ \A i \in 1..Len(cb.seen) : 0 <= cb.seen[i] /\ cb.seen[i] <= UNIT
    /\ \A i \in 1..Len(cb.prev) : 0 <= cb.prev[i] /\ cb.prev[i] <= UNIT

\* C14 witness: the progress closure has run twice during one upgrade and
\* the second value was smaller than the first
ProgressWentDownWitness ==
  /\ cb.op = "upgrade" /\ cb.supplied
  /\ cb.nclosure + cb.ngarbage >= 2
  /\ cb.seen # <<>> /\ cb.prev # <<>>
  /\ cb.seen[1] < cb.prev[1]

NativeOpenFailed ==
  /\ last.op \in {"create", "open"}
  /\ last.nativeCalled
  /\ last.status # "SUCCESS"

\* C15: when the native create/open call fails, the call returns an error
\* value, it has built no Database and no guard, no native destroy is made
\* for the attempt, and the native call was made once.
FailedOpenBuildsNothing ==
  /\ [](NativeOpenFailed =>
          /\ last.result = "Err"
          /\ last.res = 0 /\ last.handle = NULL
          /\ last.ncalls = 1)
  /\ [][NativeOpenFailed' =>
          /\ objs' = objs
          /\ nextHandle' = nextHandle
          /\ destroyed' = destroyed]_vars

\* C15 witness: open of a path that holds no storage has just failed
OpenAbsentFailedWitness ==
  /\ NativeOpenFailed
  /\ last.op = "open"
  /\ Storage(objs, last.path) = {}
  /\ last.result = "Err"

\* C16: close never releases the guard.  However often close has been
\* called on a Database, with whatever result, the Database still owns its
\* handle and no native destroy has been made while it is alive; the one
\* native destroy is made when the Database is dropped, after the last close.
CloseKeepsGuard ==
  /\ [](\A d \in Databases :
          objs[d].ptr # NULL =>
            /\ objs[d].state = "live" => destroyed[objs[d].ptr] = 0
            /\ objs[d].state = "dropped" => destroyed[objs[d].ptr] = 1)
  /\ [][closed' # closed =>
          /\ objs' = objs
          /\ destroyed' = destroyed
          /\ \A h \in Handles :
               closed'[h] # closed[h] => destroyed[h] = 0]_vars

\* C16 witness: a Database was closed twice and then dropped: its handle
\* was destroyed once
ClosedTwiceThenDroppedWitness ==
  \E d \in Databases :
    /\ objs[d].state = "dropped"
    /\ closed[objs[d].ptr] >= 2
    /\ destroyed[objs[d].ptr] = 1

\* C17: close and upgrade take &mut self, so while the native close or
\* upgrade runs on a Database no derived resource of it is alive, neither
\* one that borrows it nor one that co-owns it.
ExclusiveWhileClosingOrUpgrading ==
  /\ (cb.phase = "native" /\ cb.op = "upgrade") =>
        Dependents(objs, cb.db) = {}
  /\ last.op \in {"close", "upgrade"} =>
        /\ Dependents(objs, last.db) = {}
        /\ objs[last.db].shared => objs[last.db].strong = 1

\* C17 witness: upgrade runs on a shared Database whose Directory, made
\* through the Shared form, has been dropped before
UpgradeAfterDependentsGoneWitness ==
  /\ cb.phase = "native" /\ cb.op = "upgrade"
  /\ objs[cb.db].shared
  /\ \E r \in Derived :
       /\ objs[r].parent = cb.db
       /\ objs[r].marker.form = "Shared"
       /\ objs[r].state = "dropped"

\* C18: the trampoline and the context pointer handed to the native
\* compact/upgrade call agree: a trampoline is registered exactly when a
\* closure was supplied, and the context pointer is null exactly when none
\* is registered.  So a call without a closure runs no trampoline and no
\* closure, and the result of the operation is the native status.
TrampolineMatchesContext ==
  /\ cb.phase # "idle" =>
       /\ cb.fnptr <=> cb.supplied
       /\ (cb.ctx = NULL) <=> ~cb.fnptr
  /\ (cb.phase # "idle" /\ ~cb.supplied) =>
       /\ cb.ntramp = 0
       /\ ClosureRuns = 0
       /\ cb.phase # "crashed"
  /\ cb.phase = "returned" => last.result = as_result(last.status)

\* C18 witness: compact called without a closure has returned the native
\* failure, and no trampoline ran
BareCompactReturnedWitness ==
  /\ cb.phase = "returned" /\ cb.op = "compact"
  /\ ~cb.supplied /\ ~cb.fnptr /\ cb.ctx = NULL
  /\ last.status = "ERROR" /\ last.result = "Err"

====
